---- MODULE Spec2Model ----
(***************************************************************************)
(* skv: a typed key-value facade over an embedded storage engine.          *)
(*                                                                         *)
(* Two variants of the package are modelled:                               *)
(*   - the bitcask variant (src/unnamed/part_000): Put, PutWithTTL,        *)
(*     PutWithTags, PutWithTagsAndTTL, saveTags, Get, GetWithPrefix,       *)
(*     GetWithTag, Delete, GetKeys, GetAll, with the tag index kept under  *)
(*     "db_tag_<tag>" in the same keyspace and guarded by kvs.mu;          *)
(*   - the bbolt variant (src/skv.go): Put, Get, GetWithPrefix, Delete,    *)
(*     each one bbolt transaction on the bucket "kv".                      *)
(*                                                                         *)
(* Strings are sequences of character codes.  Stored bytes are gob         *)
(* streams: self-describing, so they carry the type they were encoded      *)
(* from, and decoding into another type fails.  The storage engines are    *)
(* libraries; their calls are modelled at the call sites by the contract   *)
(* of the library call (bitcask: ErrKeyNotFound for a key not in the       *)
(* index, ErrKeyExpired for a key whose TTL has passed, ErrEmptyKey for    *)
(* Put of the empty key, ErrKeyTooLarge for Put of a key above the default *)
(* limit of 64 bytes, Delete of an absent key succeeds, Sift skips and     *)
(* removes expired keys; bbolt: ErrKeyRequired for Put of the empty key).  *)
(***************************************************************************)
EXTENDS Integers, Sequences, FiniteSets, TLC

VARIABLES typeT, trie, ttlIndex, now, mu, pc, loc, bucket, owed, prev, written,
          putVals

vars ==
    <<typeT, trie, ttlIndex, now, mu, pc, loc, bucket, owed, prev, written, putVals>>

(* ------------------------------ bounds --------------------------------- *)

\* number of concurrent callers (goroutines) sharing one store
NProcs == 2

\* the clock runs from 0 to MaxTime
MaxTime == 2

Procs == 1..NProcs

(* ------------------------------ inputs --------------------------------- *)

\* keys: "", "a", "ab", "b"
KeyEmpty == << >>
KeyA == <<97>>
KeyAB == <<97, 98>>
KeyB == <<98>>

AllKeys == {KeyEmpty, KeyA, KeyAB, KeyB}

\* prefixes: "", "a", "b", "c"
Prefixes == {<< >>, <<97>>, <<98>>, <<99>>}

\* tag names: "x", "y"
TagX == <<120>>
TagY == <<121>>

TagNames == {TagX, TagY}

\* a tag name of 58 bytes: with the prefix "db_tag_" its Tag Entry key has 65
TagLong == [i \in 1..58 |-> 120]

\* the element type T the store was opened with: KVStore[int] or KVStore[any]
ElemTypes == {"int", "any"}

\* the integers handed to Put
Values == {1, 2}

\* the nil interface value, a value of T only in a KVStore[any]
NilValue == -1

\* the value of *new(T): 0 for int, the nil interface value for any
Zero == IF typeT = "any" THEN NilValue ELSE 0

\* the values of T a caller can hand to Put
PutValues == IF typeT = "any" THEN Values \cup {NilValue} ELSE Values

\* time-to-live arguments, in clock ticks
TTLs == {1}

(* --------------------------- pure helpers ------------------------------ *)

Min(a, b) == IF a < b THEN a ELSE b

\* bytes.Compare(a, b) < 0
LexLess(a, b) ==
    \/ Len(a) < Len(b) /\ SubSeq(b, 1, Len(a)) = a
    \/ \E i \in 1..Min(Len(a), Len(b)) :
          /\ SubSeq(a, 1, i - 1) = SubSeq(b, 1, i - 1)
          /\ a[i] < b[i]

\* bytes.HasPrefix(k, p)
HasPrefix(k, p) == Len(p) <= Len(k) /\ SubSeq(k, 1, Len(p)) = p

\* the keys of S in the engine's iteration order (ascending byte order)
RECURSIVE SortedKeys(_)
SortedKeys(S) ==
    IF S = {} THEN << >>
    ELSE LET m == CHOOSE k \in S : \A j \in S \ {k} : LexLess(k, j)
         IN  <<m>> \o SortedKeys(S \ {m})

PutF(f, k, x) == [j \in DOMAIN f \cup {k} |-> IF j = k THEN x ELSE f[j]]

DelF(f, k) == [j \in DOMAIN f \ {k} |-> f[j]]

Range(s) == {s[i] : i \in 1..Len(s)}

(* ------------------------------- gob ----------------------------------- *)

NoBytes == [kind |-> "none", val |-> Zero, keys |-> {}]

\* the error of gob.NewEncoder(&buf).Encode(value): gob cannot encode the nil
\* interface value ("gob: cannot encode nil value")
GobEncodeErr(v) == IF v = NilValue THEN "ErrGobNilValue" ELSE "nil"

\* gob.NewEncoder(&buf).Encode(value) for a value of type T: Encode takes its
\* argument as an interface value and sends the concrete integer in it, in a
\* KVStore[any] as in a KVStore[int]
GobEncodeT(v) == [kind |-> "T", val |-> v, keys |-> {}]

\* gob.NewEncoder(&buf).Encode(cacheKeys) for a map[string]struct{}
GobEncodeMap(S) == [kind |-> "map", val |-> Zero, keys |-> S]

\* whether d.Decode(output) into a new(T) returns no error: a *int takes the
\* integer sent; a *any takes only a value that was sent as an interface,
\* which Put never sends, so in a KVStore[any] every Decode fails
DecodesIntoT(b) == b.kind = "T" /\ typeT = "int"

\* d.Decode(output) into a new(T), the error dropped: on a failure output
\* keeps the zero value
GobDecodeT(b) == IF DecodesIntoT(b) THEN b.val ELSE Zero

\* d.Decode(e) into a new(map[string]struct{}): on a mismatch *e stays nil
GobDecodeMap(b) ==
    IF b.kind = "map" THEN [isNil |-> FALSE, keys |-> b.keys]
    ELSE [isNil |-> TRUE, keys |-> {}]

(* ------------------------- bitcask engine calls ------------------------ *)

\* fmt.Sprintf(CacheTagPattern, tag) with CacheTagPattern = "db_tag_%s"
CacheTagPrefix == <<100, 98, 95, 116, 97, 103, 95>>

TagKey(tag) == CacheTagPrefix \o tag

isExpired(k) == k \in DOMAIN ttlIndex /\ ttlIndex[k] < now

\* kvs.db.Get(key)
dbGet(k) ==
    IF k \notin DOMAIN trie THEN [err |-> "ErrKeyNotFound", bytes |-> NoBytes]
    ELSE IF isExpired(k) THEN [err |-> "ErrKeyExpired", bytes |-> NoBytes]
    ELSE [err |-> "nil", bytes |-> trie[k]]

\* bitcask.Open(path) without options: keys of at most 64 bytes
MaxKeySize == 64

\* the error of kvs.db.Put(key, _) and kvs.db.PutWithTTL(key, _, _)
dbPutErr(k) ==
    IF Len(k) = 0 THEN "ErrEmptyKey"
    ELSE IF Len(k) > MaxKeySize THEN "ErrKeyTooLarge"
    ELSE "nil"

\* the error of kvs.db.Delete(key): a tombstone is written whether or not the
\* key is present, and no error is raised for an absent key
dbDeleteErr(k) == "nil"

\* a bug: Delete also evicts the key from every Tag Entry
dbDeleteEvicting(k) ==
    [j \in DOMAIN trie \ {k} |->
        IF trie[j].kind = "map" THEN [trie[j] EXCEPT !.keys = @ \ {k}] ELSE trie[j]]

\* the index after kvs.db.Delete(key)
dbDeleteApply(k) == [j \in DOMAIN trie \ {k} |-> trie[j]]

Live(k) == k \in DOMAIN trie /\ ~isExpired(k)

\* what a read of the Tag Entry of tag finds
EntryKind(tag) ==
    IF TagKey(tag) \notin DOMAIN trie THEN "absent"
    ELSE IF isExpired(TagKey(tag)) THEN "unreadable"
    ELSE IF trie[TagKey(tag)].kind # "map" THEN "corrupt"
    ELSE "map"

\* the member set stored under the Tag Entry of tag (empty when absent/corrupt)
TagSet(tag) ==
    IF TagKey(tag) \in DOMAIN trie THEN GobDecodeMap(trie[TagKey(tag)]).keys
    ELSE {}

(* ------------------------- kvs.Get (bitcask) --------------------------- *)

\* the engine's result translated to the package's: only ErrKeyNotFound
\* becomes ErrNotFound, any other engine error is passed through
GetResult(r) ==
    IF r.err = "ErrKeyNotFound" THEN [val |-> Zero, err |-> "ErrNotFound"]
    ELSE IF r.err # "nil" THEN [val |-> Zero, err |-> r.err]
    ELSE [val |-> GobDecodeT(r.bytes), err |-> "nil"]

Get(k) == GetResult(dbGet(k))

(* ------------------------------ state ---------------------------------- *)

IdleLoc ==
    [op |-> "none", key |-> << >>, val |-> Zero, tags |-> << >>, i |-> 0,
     cacheKeys |-> {}, todo |-> {}, output |-> << >>, updateTags |-> FALSE,
     err |-> "nil", tagWrites |-> 0, hadKey |-> {}, wasLive |-> FALSE,
     fresh |-> FALSE, aborted |-> FALSE, entry |-> "none"]

NeverWritten ==
    [put |-> FALSE, val |-> Zero, exp |-> << >>, ttlEver |-> FALSE, tags |-> {}]

\* the state after Open[T](path), for the element type T = elem
OpenT(elem) ==
    /\ typeT = elem
    /\ trie = << >>
    /\ ttlIndex = << >>
    /\ now = 0
    /\ mu = 0
    /\ pc = [p \in Procs |-> "idle"]
    /\ loc = [p \in Procs |-> IdleLoc]
    /\ bucket = << >>
    /\ owed = [t \in TagNames |-> {}]
    /\ prev = [valid |-> FALSE, tag |-> << >>, out |-> {}, pruned |-> FALSE]
    /\ written = [k \in AllKeys |-> NeverWritten]
    /\ putVals = [k \in AllKeys |-> {}]

\* a store of integers: Open[int](path)
Init == OpenT("int")

\* a store of either element type: Open[int](path) or Open[any](path)
AnyInit == \E elem \in ElemTypes : OpenT(elem)

(* ------------------------ shared state updates ------------------------- *)

\* Whether a plain Put of a key that carries a TTL drops the old expiry
\* differs between releases of the engine: both outcomes are allowed.
KeepChoices(k) == IF k \in DOMAIN ttlIndex THEN BOOLEAN ELSE {TRUE}

\* kvs.db.Put(k, b) / kvs.db.PutWithTTL(k, b, ttl): ttl is << >> or <<d>>
dbPutApply(k, b, ttl, keep) ==
    IF dbPutErr(k) # "nil" THEN trie' = trie /\ ttlIndex' = ttlIndex
    ELSE /\ trie' = PutF(trie, k, b)
         /\ ttlIndex' = IF ttl # << >> THEN PutF(ttlIndex, k, now + ttl[1])
                        ELSE IF keep THEN ttlIndex ELSE DelF(ttlIndex, k)

\* history: the latest put or delete call made on key k; ttlEver: a put
\* with a TTL was made on k since its latest delete; tags: the tags named by
\* the latest put (none for Put and PutWithTTL)
NoteTaggedPut(k, v, ttl, tags) ==
    written' = [written EXCEPT ![k] =
                  [put |-> TRUE, val |-> v,
                   exp |-> IF dbPutErr(k) = "nil" /\ ttl # << >>
                           THEN <<now + ttl[1]>> ELSE << >>,
                   ttlEver |-> @.ttlEver \/ ttl # << >>,
                   tags |-> Range(tags)]]

\* history: the latest put or delete call made on key k; ttlEver: a put
\* with a TTL was made on k since its latest delete
NotePut(k, v, ttl) ==
    written' = [written EXCEPT ![k] =
                  [put |-> TRUE, val |-> v,
                   exp |-> IF dbPutErr(k) = "nil" /\ ttl # << >>
                           THEN <<now + ttl[1]>> ELSE << >>,
                   ttlEver |-> @.ttlEver \/ ttl # << >>,
                   tags |-> {}]]

NoteDelete(k) ==
    written' = [written EXCEPT ![k] =
                  [put |-> FALSE, val |-> Zero, exp |-> << >>, ttlEver |-> FALSE,
                   tags |-> {}]]

\* encode the value, return on an error, else write it with the engine
EncodeAndPut(k, v, ttl, keep) ==
    IF GobEncodeErr(v) # "nil" THEN trie' = trie /\ ttlIndex' = ttlIndex
    ELSE dbPutApply(k, GobEncodeT(v), ttl, keep)

\* the error that Put / PutWithTTL return, and the primary write of
\* PutWithTags / PutWithTagsAndTTL
PutErr(k, v) == IF GobEncodeErr(v) # "nil" THEN GobEncodeErr(v) ELSE dbPutErr(k)

TagOps == {"PutWithTags", "PutWithTagsAndTTL"}

\* history: the keys of K stopped being live (deleted or expired)
Unowe(K) == owed' = [t \in TagNames |-> owed[t] \ K]

Unfresh(l, K) == IF l.key \in K THEN [l EXCEPT !.fresh = FALSE] ELSE l

\* history: the latest completed GetWithTag, valid until a put, a delete or
\* an expiry intervenes
Invalidate == prev' = [prev EXCEPT !.valid = FALSE]

RecordPrev(p) ==
    prev' = IF loc[p].op = "GetWithTag"
            THEN [valid |-> TRUE, tag |-> loc[p].tags[1],
                  out |-> {loc[p].output[i][2] : i \in 1..Len(loc[p].output)},
                  pruned |-> loc[p].tagWrites > 0]
            ELSE prev

(* ---------------------- primary operations (bitcask) ------------------- *)

\* func (kvs *KVStore[T]) Put(key string, value T) error
Put(p, k, v) ==
    /\ pc[p] = "idle"
    /\ \E keep \in KeepChoices(k) : EncodeAndPut(k, v, << >>, keep)
    /\ pc' = [pc EXCEPT ![p] = "done"]
    /\ loc' = [loc EXCEPT ![p] =
                 [IdleLoc EXCEPT !.op = "Put", !.key = k, !.val = v,
                                 !.err = PutErr(k, v)]]
    /\ UNCHANGED <<now, mu, owed>>

\* func (kvs *KVStore[T]) PutWithTTL(key string, value T, ttl time.Duration) error
PutWithTTL(p, k, v, d) ==
    /\ pc[p] = "idle"
    /\ EncodeAndPut(k, v, <<d>>, TRUE)
    /\ pc' = [pc EXCEPT ![p] = "done"]
    /\ loc' = [loc EXCEPT ![p] =
                 [IdleLoc EXCEPT !.op = "PutWithTTL", !.key = k, !.val = v,
                                 !.err = PutErr(k, v)]]
    /\ UNCHANGED <<now, mu, owed>>

\* func (kvs *KVStore[T]) Get(key string) (T, error)
GetCall(p, k) ==
    /\ pc[p] = "idle"
    /\ pc' = [pc EXCEPT ![p] = "done"]
    /\ loc' = [loc EXCEPT ![p] =
                 [IdleLoc EXCEPT !.op = "Get", !.key = k,
                                 !.val = Get(k).val, !.err = Get(k).err]]
    /\ UNCHANGED <<trie, ttlIndex, now, mu, owed>>

\* func (kvs *KVStore[T]) Delete(key string) error
Delete(p, k) ==
    /\ pc[p] = "idle"
    /\ trie' = dbDeleteApply(k)
    /\ ttlIndex' = DelF(ttlIndex, k)
    /\ pc' = [pc EXCEPT ![p] = "done"]
    /\ loc' = [q \in Procs |->
                 IF q = p
                 THEN [IdleLoc EXCEPT !.op = "Delete", !.key = k,
                                      !.err = dbDeleteErr(k),
                                      !.wasLive = Live(k)]
                 ELSE Unfresh(loc[q], {k})]
    /\ Unowe({k})
    /\ UNCHANGED <<now, mu>>

\* kvs.db.Scan(prefix, f) with f calling kvs.Get: the keys with the prefix
\* in ascending order, stopping at the first error f returns (the model keeps
\* each value of the returned []T with the key it was read from)
RECURSIVE ScanGet(_)
ScanGet(ks) ==
    IF ks = << >> THEN [output |-> << >>, err |-> "nil"]
    ELSE LET r == Get(Head(ks))
         IN  IF r.err # "nil" THEN [output |-> << >>, err |-> r.err]
             ELSE LET rest == ScanGet(Tail(ks))
                  IN  [output |-> <<<<Head(ks), r.val>>>> \o rest.output,
                       err |-> rest.err]

\* func (kvs *KVStore[T]) GetWithPrefix(p string) ([]T, error)
GetWithPrefix(p, prefix) ==
    /\ pc[p] = "idle"
    /\ pc' = [pc EXCEPT ![p] = "done"]
    /\ LET r == ScanGet(SortedKeys({k \in DOMAIN trie : HasPrefix(k, prefix)}))
       IN  loc' = [loc EXCEPT ![p] =
                     [IdleLoc EXCEPT !.op = "GetWithPrefix", !.key = prefix,
                                     !.output = r.output, !.err = r.err]]
    /\ UNCHANGED <<trie, ttlIndex, now, mu, owed>>

(* ----------------------- GetKeys / GetAll (bitcask) -------------------- *)

\* kvs.db.Sift(f): the engine walks its index in key order; a key whose TTL
\* has passed is not handed to f, and is deleted once the walk is over
SiftKeys == SortedKeys({k \in DOMAIN trie : ~isExpired(k)})

SiftApply ==
    /\ trie' = [k \in {j \in DOMAIN trie : ~isExpired(j)} |-> trie[k]]
    /\ ttlIndex' = [k \in {j \in DOMAIN ttlIndex : ~isExpired(j)} |-> ttlIndex[k]]

\* func (kvs *KVStore[T]) GetKeys() ([]string, error)
GetKeys(p) ==
    /\ pc[p] = "idle"
    /\ SiftApply
    /\ pc' = [pc EXCEPT ![p] = "done"]
    /\ loc' = [loc EXCEPT ![p] = [IdleLoc EXCEPT !.op = "GetKeys", !.output = SiftKeys]]
    /\ UNCHANGED <<now, mu, owed>>

\* func (kvs *KVStore[T]) GetAll() ([]T, error): f calls kvs.Get and stops
\* the walk on its first error
GetAll(p) ==
    /\ pc[p] = "idle"
    /\ SiftApply
    /\ pc' = [pc EXCEPT ![p] = "done"]
    /\ loc' = [loc EXCEPT ![p] =
                 [IdleLoc EXCEPT !.op = "GetAll", !.output = ScanGet(SiftKeys).output,
                                 !.err = ScanGet(SiftKeys).err]]
    /\ UNCHANGED <<now, mu, owed>>

(* --------------------- tag index manager (bitcask) --------------------- *)

\* a bug: saveTags runs whether or not the primary write succeeded
IgnorePrimaryErr(err) == "stLock"

\* if err != nil { return err }; return kvs.saveTags(key, tags)
AfterPrimary(err) == IF err # "nil" THEN "done" ELSE "stLock"

\* the primary write of PutWithTags / PutWithTagsAndTTL (ttl is << >> or <<d>>);
\* on an error the call returns it, else it goes on to saveTags
TaggedPut(p, opName, k, v, ttl, tags, keep) ==
    /\ pc[p] = "idle"
    /\ EncodeAndPut(k, v, ttl, keep)
    /\ pc' = [pc EXCEPT ![p] = AfterPrimary(PutErr(k, v))]
    /\ loc' = [loc EXCEPT ![p] =
                 [IdleLoc EXCEPT !.op = opName, !.key = k, !.val = v,
                                 !.tags = tags, !.err = PutErr(k, v),
                                 !.hadKey = {t \in Range(tags) : k \in TagSet(t)},
                                 !.fresh = (PutErr(k, v) = "nil"
                                            /\ ~(k \in DOMAIN ttlIndex'
                                                 /\ ttlIndex'[k] < now))]]
    /\ UNCHANGED <<now, mu, owed>>

\* func (kvs *KVStore[T]) PutWithTags(key string, value T, tags []string) error
PutWithTags(p, k, v, tags) ==
    \E keep \in KeepChoices(k) : TaggedPut(p, "PutWithTags", k, v, << >>, tags, keep)

\* func (kvs *KVStore[T]) PutWithTagsAndTTL(key, value, ttl, tags) error
PutWithTagsAndTTL(p, k, v, d, tags) ==
    TaggedPut(p, "PutWithTagsAndTTL", k, v, <<d>>, tags, TRUE)

\* a bug: saveTags and GetWithTag do not wait for the lock
LockNotTaken == TRUE

\* kvs.mu.Lock() may proceed
LockFree == mu = 0

\* the loop of saveTags moves on to tags[i+1], or ends
NextTag(l) == IF l.i + 1 > Len(l.tags) THEN "unlock" ELSE "stRead"

\* saveTags: kvs.mu.Lock(); defer kvs.mu.Unlock()
SaveTagsLock(p) ==
    /\ pc[p] = "stLock"
    /\ LockFree
    /\ mu' = p
    /\ pc' = [pc EXCEPT ![p] = IF loc[p].tags = << >> THEN "unlock" ELSE "stRead"]
    /\ loc' = [loc EXCEPT ![p].i = 1]
    /\ UNCHANGED <<trie, ttlIndex, now, owed>>

\* the cacheKeys map read from a Tag Entry: nil when the entry is absent,
\* unreadable or does not decode
ReadCacheKeys(tag) ==
    LET r == dbGet(TagKey(tag))
    IN  IF r.err = "nil" THEN GobDecodeMap(r.bytes)
        ELSE [isNil |-> TRUE, keys |-> {}]

\* saveTags: key already a member of cacheKeys, so continue without a write
AlreadyTagged(key, cacheKeys) == key \in cacheKeys

\* saveTags, one tag: read the Tag Entry, skip when key is a member
SaveTagsRead(p) ==
    /\ pc[p] = "stRead"
    /\ LET l == loc[p]
           cacheKeys == ReadCacheKeys(l.tags[l.i]).keys
       IN  IF AlreadyTagged(l.key, cacheKeys)
           THEN /\ pc' = [pc EXCEPT ![p] = NextTag(l)]
                /\ loc' = [loc EXCEPT ![p].i = l.i + 1,
                                      ![p].entry = EntryKind(l.tags[l.i])]
           ELSE /\ pc' = [pc EXCEPT ![p] = "stWrite"]
                /\ loc' = [loc EXCEPT ![p].cacheKeys = cacheKeys \cup {l.key},
                                      ![p].entry = EntryKind(l.tags[l.i])]
    /\ UNCHANGED <<trie, ttlIndex, now, mu, owed>>

\* saveTags, one tag: kvs.db.Put(tagKey, buf.Bytes()), its error dropped
SaveTagsWrite(p) ==
    /\ pc[p] = "stWrite"
    /\ LET l == loc[p]
       IN  /\ \E keep \in KeepChoices(TagKey(l.tags[l.i])) :
                 dbPutApply(TagKey(l.tags[l.i]), GobEncodeMap(l.cacheKeys), << >>, keep)
           /\ pc' = [pc EXCEPT ![p] = NextTag(l)]
           /\ loc' = [loc EXCEPT ![p].i = l.i + 1, ![p].tagWrites = l.tagWrites + 1]
    /\ UNCHANGED <<now, mu, owed>>

\* func (kvs *KVStore[T]) GetWithTag(tag string) ([]T, error)
GetWithTag(p, tag) ==
    /\ pc[p] = "idle"
    /\ pc' = [pc EXCEPT ![p] = "gtLock"]
    /\ loc' = [loc EXCEPT ![p] = [IdleLoc EXCEPT !.op = "GetWithTag", !.tags = <<tag>>]]
    /\ UNCHANGED <<trie, ttlIndex, now, mu, owed>>

\* GetWithTag: kvs.mu.Lock(); defer kvs.mu.Unlock()
GetWithTagLock(p) ==
    /\ pc[p] = "gtLock"
    /\ LockFree
    /\ mu' = p
    /\ pc' = [pc EXCEPT ![p] = "gtRead"]
    /\ UNCHANGED <<trie, ttlIndex, now, loc, owed>>

\* a bug: a lookup that finds no Tag Entry creates an empty one
CreateOnNil == "gtWrite"

\* a bug: a lookup that finds no Tag Entry returns with the lock held
NilKeepsLock == "done"

\* if cacheKeys == nil { return output, nil }
OnNilCacheKeys == "unlock"

\* a bug: the Tag Entry is written back on every lookup
AlwaysWriteBack(updateTags) == "gtWrite"

\* GetWithTag: after the range loop, write back only if something was pruned
AfterLoop(updateTags) == IF updateTags THEN "gtWrite" ELSE "unlock"

\* a bug: the lock covers only the read of the Tag Entry, not the member Gets
GetWithTagReadThenUnlock(p) ==
    /\ pc[p] = "gtRead"
    /\ LET c == ReadCacheKeys(loc[p].tags[1])
       IN  /\ pc' = [pc EXCEPT ![p] = IF c.isNil THEN OnNilCacheKeys
                                     ELSE IF c.keys = {} THEN AfterLoop(FALSE)
                                     ELSE "gtLoop"]
           /\ loc' = [loc EXCEPT ![p].cacheKeys = c.keys, ![p].todo = c.keys,
                                 ![p].entry = EntryKind(loc[p].tags[1])]
    /\ mu' = 0
    /\ UNCHANGED <<trie, ttlIndex, now, owed>>

\* GetWithTag: read the Tag Entry; a nil cacheKeys returns the empty output
GetWithTagRead(p) ==
    /\ pc[p] = "gtRead"
    /\ LET c == ReadCacheKeys(loc[p].tags[1])
       IN  /\ pc' = [pc EXCEPT ![p] = IF c.isNil THEN OnNilCacheKeys
                                     ELSE IF c.keys = {} THEN AfterLoop(FALSE)
                                     ELSE "gtLoop"]
           /\ loc' = [loc EXCEPT ![p].cacheKeys = c.keys, ![p].todo = c.keys,
                                 ![p].entry = EntryKind(loc[p].tags[1])]
    /\ UNCHANGED <<trie, ttlIndex, now, mu, owed>>

\* a bug: a lookup that gives up still writes back what it pruned so far
AbortThenWrite(updateTags) == IF updateTags THEN "gtWrite" ELSE "unlock"

\* if err != nil { return make([]T, 0), nil }
AbortTo(updateTags) == "unlock"

\* GetWithTag, one member key (map iteration order is unspecified)
GetWithTagLoop(p) ==
    /\ pc[p] = "gtLoop"
    /\ \E key \in loc[p].todo :
         LET l == loc[p]
             item == Get(key)
             todo == l.todo \ {key}
         IN  IF item.err = "ErrNotFound"
             THEN /\ loc' = [loc EXCEPT ![p].cacheKeys = l.cacheKeys \ {key},
                                        ![p].updateTags = TRUE,
                                        ![p].todo = todo]
                  /\ pc' = [pc EXCEPT ![p] = IF todo = {} THEN AfterLoop(TRUE)
                                             ELSE "gtLoop"]
             ELSE IF item.err # "nil"
             THEN /\ loc' = [loc EXCEPT ![p].output = << >>, ![p].aborted = TRUE,
                                        ![p].todo = {}]
                  /\ pc' = [pc EXCEPT ![p] = AbortTo(l.updateTags)]
             ELSE /\ loc' = [loc EXCEPT ![p].output = Append(l.output, <<key, item.val>>),
                                        ![p].todo = todo]
                  /\ pc' = [pc EXCEPT ![p] = IF todo = {} THEN AfterLoop(l.updateTags)
                                             ELSE "gtLoop"]
    /\ UNCHANGED <<trie, ttlIndex, now, mu, owed>>

\* GetWithTag: kvs.db.Put(tagKey, buf.Bytes()) of the pruned set
GetWithTagWrite(p) ==
    /\ pc[p] = "gtWrite"
    /\ LET l == loc[p]
       IN  /\ \E keep \in KeepChoices(TagKey(l.tags[1])) :
                 dbPutApply(TagKey(l.tags[1]), GobEncodeMap(l.cacheKeys), << >>, keep)
           /\ pc' = [pc EXCEPT ![p] = "unlock"]
           /\ loc' = [loc EXCEPT ![p].tagWrites = l.tagWrites + 1]
    /\ UNCHANGED <<now, mu, owed>>

\* the deferred kvs.mu.Unlock() of saveTags and GetWithTag, and the return
Unlock(p) ==
    /\ pc[p] = "unlock"
    /\ mu' = 0
    /\ pc' = [pc EXCEPT ![p] = "done"]
    /\ owed' = IF loc[p].op \in TagOps /\ loc[p].fresh
               THEN [t \in TagNames |->
                       IF t \in Range(loc[p].tags) THEN owed[t] \cup {loc[p].key}
                       ELSE owed[t]]
               ELSE owed
    /\ UNCHANGED <<trie, ttlIndex, now, loc>>

\* the caller has taken the result; it may call again
Return(p) ==
    /\ pc[p] = "done"
    /\ pc' = [pc EXCEPT ![p] = "idle"]
    /\ loc' = [loc EXCEPT ![p] = IdleLoc]
    /\ UNCHANGED <<trie, ttlIndex, now, mu, owed>>

\* the keys that expire with the next tick of the clock
Expiring == {k \in DOMAIN ttlIndex : ttlIndex[k] = now}

\* time passes; the keys whose expiry is now in the past stop being live
Tick ==
    /\ now < MaxTime
    /\ \A p \in Procs : pc[p] # "done"
    /\ now' = now + 1
    /\ Unowe(Expiring)
    /\ loc' = [q \in Procs |-> Unfresh(loc[q], Expiring)]
    /\ UNCHANGED <<trie, ttlIndex, mu, pc>>

(* ------------- the tag protocol under concurrent callers --------------- *)

TagKeys == {KeyA, KeyB}

\* the variables of the bbolt variant, and the histories kept for the
\* sequential contracts
others == <<typeT, bucket, putVals, prev, written>>

Next ==
    \/ \E p \in Procs, k \in TagKeys :
          PutWithTags(p, k, 1, <<TagX>>) /\ UNCHANGED others
    \/ \E p \in Procs, k \in TagKeys :
          PutWithTagsAndTTL(p, k, 1, 1, <<TagX>>) /\ UNCHANGED others
    \/ \E p \in Procs : GetWithTag(p, TagX) /\ UNCHANGED others
    \/ \E p \in Procs, k \in TagKeys : Delete(p, k) /\ UNCHANGED others
    \/ \E p \in Procs : SaveTagsLock(p) /\ UNCHANGED others
    \/ \E p \in Procs : SaveTagsRead(p) /\ UNCHANGED others
    \/ \E p \in Procs : SaveTagsWrite(p) /\ UNCHANGED others
    \/ \E p \in Procs : GetWithTagLock(p) /\ UNCHANGED others
    \/ \E p \in Procs : GetWithTagRead(p) /\ UNCHANGED others
    \/ \E p \in Procs : GetWithTagLoop(p) /\ UNCHANGED others
    \/ \E p \in Procs : GetWithTagWrite(p) /\ UNCHANGED others
    \/ \E p \in Procs : Unlock(p) /\ UNCHANGED others
    \/ \E p \in Procs : Return(p) /\ UNCHANGED others
    \/ Tick /\ UNCHANGED others

Spec == Init /\ [][Next]_vars

(* --------------- the tag protocol, one call at a time ------------------ *)

SeqProcs == {1}

TagLists == {<<TagX>>, <<TagX, TagX>>}

TagSeqNext ==
    \/ \E p \in SeqProcs, k \in TagKeys, v \in Values, tags \in TagLists :
          PutWithTags(p, k, v, tags) /\ Invalidate
          /\ UNCHANGED <<typeT, bucket, putVals, written>>
    \/ \E p \in SeqProcs, k \in TagKeys, v \in Values, d \in TTLs, tags \in TagLists :
          PutWithTagsAndTTL(p, k, v, d, tags) /\ Invalidate
          /\ UNCHANGED <<typeT, bucket, putVals, written>>
    \/ \E p \in SeqProcs, t \in TagNames : GetWithTag(p, t) /\ UNCHANGED others
    \/ \E p \in SeqProcs, k \in TagKeys :
          Delete(p, k) /\ Invalidate /\ UNCHANGED <<typeT, bucket, putVals, written>>
    \/ \E p \in SeqProcs : SaveTagsLock(p) /\ UNCHANGED others
    \/ \E p \in SeqProcs : SaveTagsRead(p) /\ UNCHANGED others
    \/ \E p \in SeqProcs : SaveTagsWrite(p) /\ UNCHANGED others
    \/ \E p \in SeqProcs : GetWithTagLock(p) /\ UNCHANGED others
    \/ \E p \in SeqProcs : GetWithTagRead(p) /\ UNCHANGED others
    \/ \E p \in SeqProcs : GetWithTagLoop(p) /\ UNCHANGED others
    \/ \E p \in SeqProcs : GetWithTagWrite(p) /\ UNCHANGED others
    \/ \E p \in SeqProcs : Unlock(p) /\ UNCHANGED others
    \/ \E p \in SeqProcs : Return(p) /\ RecordPrev(p)
          /\ UNCHANGED <<typeT, bucket, putVals, written>>
    \/ /\ \A p \in Procs : pc[p] = "idle"
       /\ Tick
       /\ (IF Expiring = {} THEN UNCHANGED prev ELSE Invalidate)
       /\ UNCHANGED <<typeT, bucket, putVals, written>>

TagSeqSpec == Init /\ [][TagSeqNext]_vars

(* ------------- the primary operations, one call at a time ------------- *)

KVSeqNext ==
    \/ \E p \in SeqProcs, k \in AllKeys, v \in Values :
          Put(p, k, v) /\ NotePut(k, v, << >>) /\ UNCHANGED <<typeT, bucket, putVals, prev>>
    \/ \E p \in SeqProcs, k \in AllKeys, v \in Values, d \in TTLs :
          PutWithTTL(p, k, v, d) /\ NotePut(k, v, <<d>>)
          /\ UNCHANGED <<typeT, bucket, putVals, prev>>
    \/ \E p \in SeqProcs, k \in AllKeys : GetCall(p, k) /\ UNCHANGED others
    \/ \E p \in SeqProcs, k \in AllKeys :
          Delete(p, k) /\ NoteDelete(k) /\ UNCHANGED <<typeT, bucket, putVals, prev>>
    \/ \E p \in SeqProcs, prefix \in Prefixes :
          GetWithPrefix(p, prefix) /\ UNCHANGED others
    \/ \E p \in SeqProcs : Return(p) /\ UNCHANGED others
    \/ (\A p \in Procs : pc[p] = "idle") /\ Tick /\ UNCHANGED others

KVSeqSpec == Init /\ [][KVSeqNext]_vars

(* ------- plain and tagged operations mixed, one call at a time --------- *)

MixTags == {TagX, TagLong}

MixNext ==
    \/ \E p \in SeqProcs, k \in TagKeys :
          Put(p, k, 2) /\ NotePut(k, 2, << >>) /\ UNCHANGED <<typeT, bucket, putVals, prev>>
    \/ \E p \in SeqProcs, k \in TagKeys, d \in TTLs :
          PutWithTTL(p, k, 2, d) /\ NotePut(k, 2, <<d>>)
          /\ UNCHANGED <<typeT, bucket, putVals, prev>>
    \/ \E p \in SeqProcs, k \in TagKeys, t \in MixTags :
          PutWithTags(p, k, 1, <<t>>) /\ NoteTaggedPut(k, 1, << >>, <<t>>)
          /\ UNCHANGED <<typeT, bucket, putVals, prev>>
    \/ \E p \in SeqProcs, k \in TagKeys, d \in TTLs :
          PutWithTagsAndTTL(p, k, 1, d, <<TagX>>)
          /\ NoteTaggedPut(k, 1, <<d>>, <<TagX>>)
          /\ UNCHANGED <<typeT, bucket, putVals, prev>>
    \/ \E p \in SeqProcs, t \in MixTags : GetWithTag(p, t) /\ UNCHANGED others
    \/ \E p \in SeqProcs, k \in TagKeys :
          Delete(p, k) /\ NoteDelete(k) /\ UNCHANGED <<typeT, bucket, putVals, prev>>
    \/ \E p \in SeqProcs : SaveTagsLock(p) /\ UNCHANGED others
    \/ \E p \in SeqProcs : SaveTagsRead(p) /\ UNCHANGED others
    \/ \E p \in SeqProcs : SaveTagsWrite(p) /\ UNCHANGED others
    \/ \E p \in SeqProcs : GetWithTagLock(p) /\ UNCHANGED others
    \/ \E p \in SeqProcs : GetWithTagRead(p) /\ UNCHANGED others
    \/ \E p \in SeqProcs : GetWithTagLoop(p) /\ UNCHANGED others
    \/ \E p \in SeqProcs : GetWithTagWrite(p) /\ UNCHANGED others
    \/ \E p \in SeqProcs : Unlock(p) /\ UNCHANGED others
    \/ \E p \in SeqProcs : Return(p) /\ UNCHANGED others
    \/ (\A p \in Procs : pc[p] = "idle") /\ Tick /\ UNCHANGED others

MixSpec == Init /\ [][MixNext]_vars

(* ------------ a Tag Entry overwritten or removed by a caller ----------- *)

\* Put under the key of a Tag Entry stores the gob of a T there, which does
\* not decode into the member set; Delete of that key removes the entry
CorruptNext ==
    \/ \E p \in SeqProcs, v \in Values :
          Put(p, TagKey(TagX), v) /\ UNCHANGED others
    \/ \E p \in SeqProcs, k \in TagKeys \cup {TagKey(TagX)} :
          Delete(p, k) /\ UNCHANGED others
    \/ \E p \in SeqProcs, k \in TagKeys :
          PutWithTags(p, k, 1, <<TagX>>) /\ UNCHANGED others
    \/ \E p \in SeqProcs : GetWithTag(p, TagX) /\ UNCHANGED others
    \/ \E p \in SeqProcs : SaveTagsLock(p) /\ UNCHANGED others
    \/ \E p \in SeqProcs : SaveTagsRead(p) /\ UNCHANGED others
    \/ \E p \in SeqProcs : SaveTagsWrite(p) /\ UNCHANGED others
    \/ \E p \in SeqProcs : GetWithTagLock(p) /\ UNCHANGED others
    \/ \E p \in SeqProcs : GetWithTagRead(p) /\ UNCHANGED others
    \/ \E p \in SeqProcs : GetWithTagLoop(p) /\ UNCHANGED others
    \/ \E p \in SeqProcs : GetWithTagWrite(p) /\ UNCHANGED others
    \/ \E p \in SeqProcs : Unlock(p) /\ UNCHANGED others
    \/ \E p \in SeqProcs : Return(p) /\ UNCHANGED others

CorruptSpec == Init /\ [][CorruptNext]_vars

(* -------- whole-store reads beside plain and tagged writes ------------- *)

\* one integer, and in a KVStore[any] the nil value too
ScanValues == PutValues \ {2}

ScanNext ==
    \/ \E p \in SeqProcs, k \in TagKeys, v \in ScanValues :
          Put(p, k, v) /\ UNCHANGED others
    \/ \E p \in SeqProcs, k \in TagKeys, v \in ScanValues, d \in TTLs :
          PutWithTTL(p, k, v, d) /\ UNCHANGED others
    \/ \E p \in SeqProcs, k \in TagKeys, v \in ScanValues :
          PutWithTags(p, k, v, <<TagX>>) /\ UNCHANGED others
    \/ \E p \in SeqProcs, k \in TagKeys : Delete(p, k) /\ UNCHANGED others
    \/ \E p \in SeqProcs, k \in TagKeys \cup {TagKey(TagX)} :
          GetCall(p, k) /\ UNCHANGED others
    \/ \E p \in SeqProcs : GetKeys(p) /\ UNCHANGED others
    \/ \E p \in SeqProcs : GetAll(p) /\ UNCHANGED others
    \/ \E p \in SeqProcs : SaveTagsLock(p) /\ UNCHANGED others
    \/ \E p \in SeqProcs : SaveTagsRead(p) /\ UNCHANGED others
    \/ \E p \in SeqProcs : SaveTagsWrite(p) /\ UNCHANGED others
    \/ \E p \in SeqProcs : Unlock(p) /\ UNCHANGED others
    \/ \E p \in SeqProcs : Return(p) /\ UNCHANGED others
    \/ (\A p \in Procs : pc[p] = "idle") /\ Tick /\ UNCHANGED others

ScanSpec == AnyInit /\ [][ScanNext]_vars

(* --------- tagged puts with several tags, one call at a time ----------- *)

OrderKeys == {KeyEmpty, KeyA, KeyB}

OrderLists == {<<TagX>>, <<TagX, TagY>>, <<TagY, TagX>>}

OrderNext ==
    \/ \E p \in SeqProcs, k \in OrderKeys, v \in ScanValues, tags \in OrderLists :
          PutWithTags(p, k, v, tags) /\ UNCHANGED others
    \/ \E p \in SeqProcs, k \in OrderKeys, v \in ScanValues, d \in TTLs :
          PutWithTagsAndTTL(p, k, v, d, <<TagX, TagY>>) /\ UNCHANGED others
    \/ \E p \in SeqProcs, t \in TagNames : GetWithTag(p, t) /\ UNCHANGED others
    \/ \E p \in SeqProcs, k \in TagKeys : Delete(p, k) /\ UNCHANGED others
    \/ \E p \in SeqProcs : SaveTagsLock(p) /\ UNCHANGED others
    \/ \E p \in SeqProcs : SaveTagsRead(p) /\ UNCHANGED others
    \/ \E p \in SeqProcs : SaveTagsWrite(p) /\ UNCHANGED others
    \/ \E p \in SeqProcs : GetWithTagLock(p) /\ UNCHANGED others
    \/ \E p \in SeqProcs : GetWithTagRead(p) /\ UNCHANGED others
    \/ \E p \in SeqProcs : GetWithTagLoop(p) /\ UNCHANGED others
    \/ \E p \in SeqProcs : GetWithTagWrite(p) /\ UNCHANGED others
    \/ \E p \in SeqProcs : Unlock(p) /\ UNCHANGED others
    \/ \E p \in SeqProcs : Return(p) /\ UNCHANGED others

OrderSpec == AnyInit /\ [][OrderNext]_vars

(* --------- the tag protocol under fairly scheduled callers ------------- *)

LiveKeys == {KeyA}

LiveNext ==
    \/ \E p \in Procs, k \in LiveKeys :
          PutWithTags(p, k, 1, <<TagX>>) /\ UNCHANGED others
    \/ \E p \in Procs, k \in LiveKeys :
          PutWithTagsAndTTL(p, k, 1, 1, <<TagX>>) /\ UNCHANGED others
    \/ \E p \in Procs : GetWithTag(p, TagX) /\ UNCHANGED others
    \/ \E p \in Procs, k \in LiveKeys : Delete(p, k) /\ UNCHANGED others
    \/ \E p \in Procs : SaveTagsLock(p) /\ UNCHANGED others
    \/ \E p \in Procs : SaveTagsRead(p) /\ UNCHANGED others
    \/ \E p \in Procs : SaveTagsWrite(p) /\ UNCHANGED others
    \/ \E p \in Procs : GetWithTagLock(p) /\ UNCHANGED others
    \/ \E p \in Procs : GetWithTagRead(p) /\ UNCHANGED others
    \/ \E p \in Procs : GetWithTagLoop(p) /\ UNCHANGED others
    \/ \E p \in Procs : GetWithTagWrite(p) /\ UNCHANGED others
    \/ \E p \in Procs : Unlock(p) /\ UNCHANGED others
    \/ \E p \in Procs : Return(p) /\ UNCHANGED others
    \/ Tick /\ UNCHANGED others

\* a caller inside a call keeps running (weak fairness of its steps), and a
\* caller blocked in kvs.mu.Lock() is not passed over for ever (sync.RWMutex
\* hands the lock to a starving waiter: strong fairness of the acquisition)
LiveFairness ==
    \A p \in Procs :
        /\ SF_vars(SaveTagsLock(p) /\ UNCHANGED others)
        /\ SF_vars(GetWithTagLock(p) /\ UNCHANGED others)
        /\ WF_vars(SaveTagsRead(p) /\ UNCHANGED others)
        /\ WF_vars(SaveTagsWrite(p) /\ UNCHANGED others)
        /\ WF_vars(GetWithTagRead(p) /\ UNCHANGED others)
        /\ WF_vars(GetWithTagLoop(p) /\ UNCHANGED others)
        /\ WF_vars(GetWithTagWrite(p) /\ UNCHANGED others)
        /\ WF_vars(Unlock(p) /\ UNCHANGED others)

LiveSpec == Init /\ [][LiveNext]_vars /\ LiveFairness

(* ------------------------ the bbolt variant ---------------------------- *)

\* c.Seek(key): the first key of the bucket that is >= key, << >> for nil
Seek(key) ==
    LET ge == {j \in DOMAIN bucket : j = key \/ LexLess(key, j)}
    IN  IF ge = {} THEN << >> ELSE <<Head(SortedKeys(ge))>>

\* if k, v := c.Seek([]byte(key)); k == nil || string(k) != key
SeekMisses(key) == Seek(key) = << >> \/ Seek(key)[1] # key

\* the error of tx.Bucket(bucketName).Put(key, value)
BucketPutErr(k) == IF Len(k) = 0 THEN "ErrKeyRequired" ELSE "nil"

\* the error Put returns: the error of gob's Encode, which returns before
\* kvs.db.Update is called, and otherwise the error of the transaction
BoltPutErr(k, v) ==
    IF GobEncodeErr(v) # "nil" THEN GobEncodeErr(v) ELSE BucketPutErr(k)

\* bbolt variant: func (kvs *KVStore[T]) Put(key string, value T) error
BoltPut(p, k, v) ==
    /\ pc[p] = "idle"
    /\ bucket' = IF BoltPutErr(k, v) = "nil" THEN PutF(bucket, k, GobEncodeT(v))
                 ELSE bucket
    /\ pc' = [pc EXCEPT ![p] = "done"]
    /\ loc' = [loc EXCEPT ![p] =
                 [IdleLoc EXCEPT !.op = "Put", !.key = k, !.val = v,
                                 !.err = BoltPutErr(k, v)]]
    /\ putVals' = IF BoltPutErr(k, v) = "nil"
                  THEN [putVals EXCEPT ![k] = @ \cup {v}] ELSE putVals
    /\ UNCHANGED <<typeT, trie, ttlIndex, now, mu, owed, prev, written>>

\* bbolt variant: func (kvs *KVStore[T]) Get(key string) (T, error)
BoltGet(p, k) ==
    /\ pc[p] = "idle"
    /\ pc' = [pc EXCEPT ![p] = "done"]
    /\ loc' = [loc EXCEPT ![p] =
                 IF SeekMisses(k)
                 THEN [IdleLoc EXCEPT !.op = "Get", !.key = k, !.err = "ErrNotFound"]
                 ELSE [IdleLoc EXCEPT !.op = "Get", !.key = k,
                                      !.val = GobDecodeT(bucket[Seek(k)[1]])]]
    /\ UNCHANGED <<typeT, trie, ttlIndex, now, mu, owed, prev, written, bucket, putVals>>

\* bbolt variant: func (kvs *KVStore[T]) Delete(key string) error
BoltDelete(p, k) ==
    /\ pc[p] = "idle"
    /\ bucket' = IF SeekMisses(k) THEN bucket ELSE DelF(bucket, k)
    /\ pc' = [pc EXCEPT ![p] = "done"]
    /\ loc' = [loc EXCEPT ![p] =
                 [IdleLoc EXCEPT !.op = "Delete", !.key = k,
                                 !.wasLive = k \in DOMAIN bucket,
                                 !.err = IF SeekMisses(k) THEN "ErrNotFound"
                                         ELSE "nil"]]
    /\ UNCHANGED <<typeT, trie, ttlIndex, now, mu, owed, prev, written, putVals>>

\* for k, v := c.Seek(prefix); k != nil && bytes.HasPrefix(k, prefix); k, v = c.Next()
RECURSIVE CursorWalk(_, _)
CursorWalk(ks, prefix) ==
    IF ks = << >> \/ ~HasPrefix(Head(ks), prefix) THEN << >>
    ELSE <<<<Head(ks), GobDecodeT(bucket[Head(ks)])>>>> \o CursorWalk(Tail(ks), prefix)

\* bbolt variant: func (kvs *KVStore[T]) GetWithPrefix(p string) ([]T, error)
BoltGetWithPrefix(p, prefix) ==
    /\ pc[p] = "idle"
    /\ pc' = [pc EXCEPT ![p] = "done"]
    /\ LET from == {j \in DOMAIN bucket : j = prefix \/ LexLess(prefix, j)}
       IN  loc' = [loc EXCEPT ![p] =
                     [IdleLoc EXCEPT !.op = "GetWithPrefix", !.key = prefix,
                                     !.output = CursorWalk(SortedKeys(from), prefix)]]
    /\ UNCHANGED <<typeT, trie, ttlIndex, now, mu, owed, prev, written, bucket, putVals>>

BoltKeys == {KeyEmpty, KeyA, KeyAB}

\* each call is one bbolt transaction; the callers' transactions interleave
BoltNext ==
    \/ \E p \in Procs, k \in BoltKeys, v \in PutValues : BoltPut(p, k, v)
    \/ \E p \in Procs, k \in BoltKeys : BoltGet(p, k)
    \/ \E p \in Procs, k \in BoltKeys : BoltDelete(p, k)
    \/ \E p \in Procs, prefix \in Prefixes : BoltGetWithPrefix(p, prefix)
    \/ \E p \in Procs : Return(p) /\ UNCHANGED others

BoltSpec == AnyInit /\ [][BoltNext]_vars

(* ------------------------- C1: no lost updates ------------------------- *)

\* C1: every key whose PutWithTags / PutWithTagsAndTTL naming tag t has
\* returned, and whose primary entry has been live ever since that call's
\* primary write, is a member of the stored set of t, under every
\* interleaving of the callers' steps.
C1_NoLostUpdate == \A t \in TagNames : owed[t] \subseteq TagSet(t)

\* a GetWithTag holds the lock and is about to write back a set from which it
\* pruned k, while another caller has already re-put k and waits for the lock
C1_Witness ==
    \E p \in Procs, q \in Procs :
        /\ pc[p] = "gtWrite"
        /\ pc[q] = "stLock"
        /\ loc[q].fresh
        /\ loc[q].key \in TagSet(TagX) \ loc[p].cacheKeys

(* ------------------------ C2: mutual exclusion ------------------------- *)

\* between kvs.mu.Lock() and the deferred kvs.mu.Unlock()
InCS(p) == pc[p] \in {"stRead", "stWrite", "gtRead", "gtLoop", "gtWrite", "unlock"}

\* C2: at most one caller is inside a tag critical section (saveTags, or
\* GetWithTag from its read of the Tag Entry through its member Gets to its
\* write-back), and that caller holds the lock.
C2_MutualExclusion ==
    /\ \A p \in Procs, q \in Procs : InCS(p) /\ InCS(q) => p = q
    /\ \A p \in Procs : InCS(p) => mu = p

\* one caller is at a member Get of GetWithTag while another waits in saveTags
C2_Witness ==
    \E p \in Procs, q \in Procs :
        pc[p] = "gtLoop" /\ loc[p].output # << >> /\ pc[q] = "stLock"

(* ------------------------- C3: tag convergence ------------------------- *)

Returned(p, opNames) == pc[p] = "done" /\ loc[p].op \in opNames

\* C3: a GetWithTag(T) that returns includes the stored value of every key
\* that was put with tag T and has been live since, does not include a
\* deleted key, and has removed every deleted key from T's stored set.
C3_TagConvergence ==
    \A p \in SeqProcs :
        Returned(p, {"GetWithTag"}) =>
            LET T == loc[p].tags[1]
                out == Range(loc[p].output)
            IN  /\ \A k \in owed[T] : <<k, GobDecodeT(trie[k])>> \in out
                /\ \A k \in TagKeys \ DOMAIN trie :
                      /\ k \notin TagSet(T)
                      /\ \A v \in Values : <<k, v>> \notin out

(* ------------------------ C4: idempotent tagging ----------------------- *)

\* how many entries of a GetWithTag output were read from key k
Copies(output, k) == Cardinality({i \in 1..Len(output) : output[i][1] = k})

\* C4: after PutWithTags(k, v, tags) returns, k is a member of the set of
\* every tag of tags, and the call wrote only the Tag Entries that did not
\* hold k before it (none on a repeated call, one for a tag repeated in the
\* list); and a GetWithTag(T) returns exactly one value for each key put
\* with T and live since.
C4_IdempotentTagging ==
    \A p \in SeqProcs :
        /\ Returned(p, TagOps) /\ loc[p].err = "nil" =>
              /\ \A t \in Range(loc[p].tags) : loc[p].key \in TagSet(t)
              /\ loc[p].tagWrites = Cardinality(Range(loc[p].tags) \ loc[p].hadKey)
        /\ Returned(p, {"GetWithTag"}) =>
              \A k \in owed[loc[p].tags[1]] : Copies(loc[p].output, k) = 1

\* what holds of C4 in every state: membership and the write count as above,
\* never two values for one key, and exactly one when no member of the tag
\* has expired
C4_NoExpiredMember ==
    \A p \in SeqProcs :
        /\ Returned(p, TagOps) /\ loc[p].err = "nil" =>
              /\ \A t \in Range(loc[p].tags) : loc[p].key \in TagSet(t)
              /\ loc[p].tagWrites = Cardinality(Range(loc[p].tags) \ loc[p].hadKey)
        /\ Returned(p, {"GetWithTag"}) =>
              /\ \A k \in TagKeys : Copies(loc[p].output, k) <= 1
              /\ (\A m \in TagSet(loc[p].tags[1]) : ~isExpired(m)) =>
                    \A k \in owed[loc[p].tags[1]] : Copies(loc[p].output, k) = 1

(* ------------------ C5: idempotent convergence of lookup --------------- *)

\* C5: GetWithTag writes the Tag Entry only in a call that found a stale
\* member; and when no put, delete or expiry came after the previous
\* GetWithTag of the same tag, this call returns the same set of values and
\* writes nothing.
C5_LookupIdempotent ==
    \A p \in SeqProcs :
        Returned(p, {"GetWithTag"}) =>
            /\ loc[p].tagWrites > 0 => loc[p].updateTags
            /\ prev.valid /\ prev.tag = loc[p].tags[1] =>
                  /\ {loc[p].output[i][2] : i \in 1..Len(loc[p].output)} = prev.out
                  /\ loc[p].tagWrites = 0

\* the previous GetWithTag pruned a stale member and returned a value; the
\* same lookup has returned again with nothing changed in between
C5_Witness ==
    \E p \in SeqProcs :
        /\ Returned(p, {"GetWithTag"})
        /\ prev.valid /\ prev.pruned /\ prev.tag = loc[p].tags[1]
        /\ loc[p].output # << >>

(* ----------------------- C6: Put / Get / Delete ------------------------ *)

\* C6: for a key put without a TTL only (the empty key included), Get
\* returns the value of the latest Put call on it when no Delete call came
\* after that Put, and ErrNotFound when the key was never put or its latest
\* call was a Delete.
C6_PutGetDelete ==
    \A p \in SeqProcs :
        Returned(p, {"Get"}) /\ ~written[loc[p].key].ttlEver =>
            IF written[loc[p].key].put
            THEN loc[p].err = "nil" /\ loc[p].val = written[loc[p].key].val
            ELSE loc[p].err = "ErrNotFound"

(* --------------------- C7: Delete of an absent key --------------------- *)

\* C7: Delete(k) returns ErrNotFound when k is not present (never written,
\* deleted or expired), and removes k and returns no error when it is.
C7_DeleteNotFound ==
    \A p \in SeqProcs :
        Returned(p, {"Delete"}) =>
            IF loc[p].wasLive
            THEN loc[p].err = "nil" /\ loc[p].key \notin DOMAIN trie
            ELSE loc[p].err = "ErrNotFound"

(* ---------------------------- C8: TTL expiry --------------------------- *)

\* C8: a key whose latest write is a PutWithTTL(k, v, ttl) made at time t0
\* is returned as v by Get while now < t0 + ttl, and Get returns ErrNotFound
\* and no value once now is past t0 + ttl.
C8_TTLExpiry ==
    \A p \in SeqProcs :
        Returned(p, {"Get"}) /\ written[loc[p].key].exp # << >> =>
            /\ now < written[loc[p].key].exp[1] =>
                  loc[p].err = "nil" /\ loc[p].val = written[loc[p].key].val
            /\ now > written[loc[p].key].exp[1] =>
                  loc[p].err = "ErrNotFound" /\ loc[p].val = Zero

(* ------------- C9: concurrent Put / Get / Delete on one key ------------ *)

\* C9: with concurrent callers doing Put, Get and Delete on one key, every Put
\* of a value (not the nil value, which Put is to refuse) returns no error,
\* every Delete returns no error or ErrNotFound, and every Get returns
\* ErrNotFound or a value that a Put stored under the key.
C9_ConcurrentSafety ==
    \A p \in Procs :
        /\ Returned(p, {"Put"}) /\ loc[p].val # NilValue => loc[p].err = "nil"
        /\ Returned(p, {"Delete"}) => loc[p].err \in {"nil", "ErrNotFound"}
        /\ Returned(p, {"Get"}) =>
              \/ loc[p].err = "ErrNotFound"
              \/ loc[p].err = "nil" /\ loc[p].val \in putVals[loc[p].key]

\* the same, for the keys a Put accepts; in a KVStore[any] a Get of a stored
\* key returns the nil value, whatever was stored
C9_NonEmptyKeys ==
    \A p \in Procs :
        loc[p].key # KeyEmpty =>
            /\ Returned(p, {"Put"}) /\ loc[p].val # NilValue => loc[p].err = "nil"
            /\ Returned(p, {"Put"}) /\ loc[p].val = NilValue =>
                  loc[p].err = "ErrGobNilValue" /\ NilValue \notin putVals[loc[p].key]
            /\ Returned(p, {"Delete"}) => loc[p].err \in {"nil", "ErrNotFound"}
            /\ Returned(p, {"Get"}) =>
                  \/ loc[p].err = "ErrNotFound"
                  \/ /\ loc[p].err = "nil"
                     /\ putVals[loc[p].key] # {}
                     /\ IF typeT = "int" THEN loc[p].val \in putVals[loc[p].key]
                        ELSE loc[p].val = NilValue

(* --------------------------- C10: prefix scan -------------------------- *)

\* C10: GetWithPrefix(p) returns no error and exactly the values of the live
\* keys that start with p, one per key, in ascending key order (the empty
\* sequence when there is none).
C10_PrefixScan ==
    \A p \in SeqProcs :
        Returned(p, {"GetWithPrefix"}) =>
            LET ks == SortedKeys({k \in DOMAIN trie :
                                     Live(k) /\ HasPrefix(k, loc[p].key)})
            IN  /\ loc[p].err = "nil"
                /\ loc[p].output = [i \in 1..Len(ks) |->
                                      <<ks[i], GobDecodeT(trie[ks[i]])>>]

(* -------------------------- C11: lazy repair --------------------------- *)

\* C11: a step changes the stored bytes of a Tag Entry only when it is the
\* engine write of saveTags (PutWithTags / PutWithTagsAndTTL), which can only
\* add the put key to the member set, or the write-back of GetWithTag, which
\* can only remove members; Put, PutWithTTL, Delete and the passing of time
\* leave every Tag Entry as it is, stale members included.
C11_LazyRepair ==
    [][\A t \in MixTags :
          /\ (\A p \in Procs : pc[p] \notin {"stWrite", "gtWrite"}) =>
                /\ (TagKey(t) \in DOMAIN trie) = (TagKey(t) \in DOMAIN trie')
                /\ TagKey(t) \in DOMAIN trie => trie'[TagKey(t)] = trie[TagKey(t)]
          /\ \A p \in Procs :
                /\ pc[p] = "stWrite" /\ pc'[p] # "stWrite" =>
                      /\ loc[p].op \in TagOps
                      /\ TagSet(t)' \in {TagSet(t), TagSet(t) \cup {loc[p].key}}
                /\ pc[p] = "gtWrite" /\ pc'[p] # "gtWrite" =>
                      /\ loc[p].op = "GetWithTag"
                      /\ TagSet(t)' \subseteq TagSet(t)]_vars

\* a Delete has returned and the deleted key is still a member of a Tag Entry
C11_Witness ==
    \E p \in SeqProcs :
        /\ Returned(p, {"Delete"})
        /\ loc[p].key \in TagSet(TagX)
        /\ loc[p].key \notin DOMAIN trie

(* ----------------------- C12: fail-safe abort -------------------------- *)

\* C12: a GetWithTag in which the Get of a member failed with an error other
\* than ErrNotFound returns the empty sequence and no error, and has written
\* nothing: the stored Tag Entry still holds every member, also the stale
\* ones the call had already dropped from its own copy of the set.
C12_FailSafeAbort ==
    \A p \in SeqProcs :
        Returned(p, {"GetWithTag"}) /\ loc[p].aborted =>
            /\ loc[p].output = << >>
            /\ loc[p].err = "nil"
            /\ loc[p].tagWrites = 0
            /\ loc[p].cacheKeys \subseteq TagSet(loc[p].tags[1])
            /\ loc[p].updateTags => loc[p].cacheKeys # TagSet(loc[p].tags[1])

\* a lookup found a stale member first and then gave up on an expired one
C12_Witness ==
    \E p \in SeqProcs :
        /\ Returned(p, {"GetWithTag"})
        /\ loc[p].aborted
        /\ loc[p].updateTags
        /\ \E k \in TagSet(loc[p].tags[1]) : isExpired(k)

(* ---------------------- C13: corrupt Tag Entry ------------------------- *)

\* C13: when the bytes of the Tag Entry of T do not decode, PutWithTags(k, v,
\* [T]) returns no error and leaves the entry holding exactly {k}, and
\* GetWithTag(T) returns the empty sequence and no error and writes nothing;
\* when the entry is absent, GetWithTag(T) returns the empty sequence and no
\* error and the entry is still absent afterwards.
C13_CorruptEntry ==
    \A p \in SeqProcs :
        /\ Returned(p, {"PutWithTags"}) /\ loc[p].entry = "corrupt" =>
              /\ loc[p].err = "nil"
              /\ TagKey(TagX) \in DOMAIN trie
              /\ trie[TagKey(TagX)] = GobEncodeMap({loc[p].key})
        /\ Returned(p, {"GetWithTag"}) /\ loc[p].entry \in {"corrupt", "absent"} =>
              /\ loc[p].output = << >>
              /\ loc[p].err = "nil"
              /\ loc[p].tagWrites = 0
        /\ Returned(p, {"GetWithTag"}) /\ loc[p].entry = "corrupt" =>
              TagKey(TagX) \in DOMAIN trie /\ trie[TagKey(TagX)].kind = "T"
        /\ Returned(p, {"GetWithTag"}) /\ loc[p].entry = "absent" =>
              TagKey(TagX) \notin DOMAIN trie

\* a PutWithTags that found an undecodable Tag Entry has returned, with
\* another key live that the entry held before it was overwritten
C13_Witness ==
    \E p \in SeqProcs :
        /\ Returned(p, {"PutWithTags"})
        /\ loc[p].entry = "corrupt"
        /\ \E k \in TagKeys \ {loc[p].key} : Live(k)

(* ------------------- C14: decode errors on the primary path ------------ *)

\* C14: Get of a key whose stored bytes do not decode into T returns an
\* error, not a value with no error; and GetAll returns an error and no
\* values when the store holds such a key.
C14_DecodeErrorSurfaced ==
    \A p \in SeqProcs :
        /\ Returned(p, {"Get"}) /\ Live(loc[p].key)
           /\ ~DecodesIntoT(trie[loc[p].key]) =>
              loc[p].err # "nil"
        /\ Returned(p, {"GetAll"})
           /\ (\E k \in DOMAIN trie : ~DecodesIntoT(trie[k])) =>
              loc[p].err # "nil" /\ loc[p].output = << >>

(* --------------------------- C15: nil value ---------------------------- *)

\* C15: Put, PutWithTTL and PutWithTags called with the nil value return
\* ErrBadValue, and nothing is stored for the key by the call.
C15_NilValueRejected ==
    \A p \in SeqProcs :
        Returned(p, {"Put", "PutWithTTL", "PutWithTags", "PutWithTagsAndTTL"})
        /\ loc[p].val = NilValue =>
            /\ loc[p].err = "ErrBadValue"
            /\ loc[p].key \in DOMAIN trie => trie[loc[p].key].val # NilValue
            /\ loc[p].tagWrites = 0

(* ---------------------------- C16: GetKeys ----------------------------- *)

\* C16: GetKeys returns no error and exactly the keys that the caller put
\* and that are neither deleted nor expired, each once; GetAll returns no
\* error and exactly one value for each of these keys.
C16_GetKeysExact ==
    \A p \in SeqProcs :
        LET stored == {k \in TagKeys : Live(k)}
        IN  /\ Returned(p, {"GetKeys"}) =>
                  /\ loc[p].err = "nil"
                  /\ Range(loc[p].output) = stored
                  /\ Len(loc[p].output) = Cardinality(stored)
            /\ Returned(p, {"GetAll"}) =>
                  /\ loc[p].err = "nil"
                  /\ {loc[p].output[i][1] : i \in 1..Len(loc[p].output)} = stored
                  /\ Len(loc[p].output) = Cardinality(stored)

(* ------------- C17: order and failure of a tagged put ------------------ *)

\* the tags of a call that come before position i of its list
TagsBefore(l, i) == {l.tags[j] : j \in 1..Min(i - 1, Len(l.tags))}

\* C17: while a PutWithTags / PutWithTagsAndTTL is in saveTags, its primary
\* write has succeeded and the key holds the put value; a call whose encoding
\* or primary write failed returns that error with no Tag Entry written; and
\* in saveTags the tags before the current position hold the key, each
\* written by its own engine write unless it held the key already, while
\* the tags from the current position on are as they were before the call.
C17_OrderAndFailure ==
    \A p \in SeqProcs :
        LET l == loc[p]
        IN  l.op \in TagOps =>
              /\ pc[p] \in {"stLock", "stRead", "stWrite", "unlock"} =>
                    /\ l.err = "nil"
                    /\ l.key \in DOMAIN trie
                    /\ trie[l.key] = GobEncodeT(l.val)
              /\ pc[p] = "stLock" => l.tagWrites = 0
              /\ pc[p] = "done" /\ l.err # "nil" =>
                    /\ l.err = PutErr(l.key, l.val)
                    /\ l.tagWrites = 0
                    /\ \A t \in Range(l.tags) : (l.key \in TagSet(t)) = (t \in l.hadKey)
              /\ pc[p] \in {"stRead", "stWrite"} =>
                    /\ \A t \in TagsBefore(l, l.i) : l.key \in TagSet(t)
                    /\ \A t \in Range(l.tags) \ TagsBefore(l, l.i) :
                          (l.key \in TagSet(t)) = (t \in l.hadKey)
                    /\ l.tagWrites = Cardinality(TagsBefore(l, l.i) \ l.hadKey)

\* a call naming x then y is at its second tag: x holds the key, y not yet
C17_Witness ==
    \E p \in SeqProcs :
        /\ pc[p] = "stRead"
        /\ loc[p].tags = <<TagX, TagY>>
        /\ loc[p].i = 2
        /\ loc[p].tagWrites = 1
        /\ loc[p].key \in TagSet(TagX) \ TagSet(TagY)

(* ------------- C18: a failed Tag Entry write is reported --------------- *)

\* C18: when PutWithTags / PutWithTagsAndTTL returns no error, the key is a
\* member of the stored set of every tag of the call.
C18_TagWriteReported ==
    \A p \in SeqProcs :
        Returned(p, TagOps) /\ loc[p].err = "nil" =>
            \A t \in Range(loc[p].tags) : loc[p].key \in TagSet(t)

(* ------------ C20: tag membership follows the latest put --------------- *)

\* C20: every value that GetWithTag(T) returns was read from a live key
\* whose latest put was a PutWithTags / PutWithTagsAndTTL naming T.
C20_MembershipFollowsLatestPut ==
    \A p \in SeqProcs :
        Returned(p, {"GetWithTag"}) =>
            \A i \in 1..Len(loc[p].output) :
                LET k == loc[p].output[i][1]
                IN  /\ Live(k)
                    /\ written[k].put
                    /\ loc[p].tags[1] \in written[k].tags

(* -------------------- C19: the tag lock is released -------------------- *)

\* C19: a caller that is not between kvs.mu.Lock() and the deferred Unlock
\* does not hold the lock (every path out of saveTags and GetWithTag has
\* released it); every caller waiting for the lock eventually holds it; and
\* every tag operation under way eventually returns.
C19_LockReleased ==
    /\ [](\A p \in Procs : mu = p => InCS(p))
    /\ \A p \in Procs : (pc[p] \in {"stLock", "gtLock"}) ~> (mu = p)
    /\ \A p \in Procs : (pc[p] \notin {"idle", "done"}) ~> (pc[p] = "done")

\* a lookup that gave up on a member Get error is about to release the lock
\* while another caller waits for it
C19_Witness ==
    \E p \in Procs, q \in Procs :
        /\ pc[p] = "unlock" /\ loc[p].aborted /\ mu = p
        /\ pc[q] \in {"stLock", "gtLock"}

====
